---- MODULE Spec2Model ----
(***************************************************************************)
(* A model of src/resolve/resolved-link.c: the Link / LinkAddress /        *)
(* DnsServer bookkeeping of the resolver daemon.                           *)
(*                                                                         *)
(* Objects live in heaps (functions whose DOMAIN is the set of live        *)
(* object identities); a pointer is an identity or NULL.  Every handler    *)
(* runs to completion, so each action is one whole handler.  Handlers are  *)
(* written as operators over a "world" record W (the program state plus    *)
(* the bookkeeping of the running handler), threaded through the calls in  *)
(* the order of the C code.                                                *)
(*                                                                         *)
(* new0() hands out the smallest free identity of the pool: every          *)
(* operation is indifferent to which identity it gets, so this is a        *)
(* symmetry reduction; an exhausted pool is an allocation failure.         *)
(***************************************************************************)
EXTENDS Integers, Sequences, FiniteSets, TLC

(* ------------------------------ bounds -------------------------------- *)
MaxIfindex == 2
MaxLinks == 3
MaxAddrs == 2
MaxNameservers == 2
MaxScopesAddrs == 1

(* -------------------------- program constants ------------------------- *)
NULL == 0
LLMNR_DEFAULT_TTL == 30
IF_NAMESIZE == 16

OK == "0"
ENOMEM == "-ENOMEM"
EEXIST == "-EEXIST"
EINVAL == "-EINVAL"
ENODATA == "-ENODATA"

AF_UNSPEC == "AF_UNSPEC"
AF_INET == "AF_INET"
AF_INET6 == "AF_INET6"
Families == {AF_INET, AF_INET6}

IFF_LOOPBACK == "IFF_LOOPBACK"
IFF_MULTICAST == "IFF_MULTICAST"
IFA_F_DEPRECATED == "IFA_F_DEPRECATED"
RT_SCOPE_UNIVERSE == "RT_SCOPE_UNIVERSE"
RT_SCOPE_HOST == "RT_SCOPE_HOST"
RT_SCOPE_NOWHERE == "RT_SCOPE_NOWHERE"

DNS_PROTOCOL_DNS == "DNS_PROTOCOL_DNS"
DNS_PROTOCOL_LLMNR == "DNS_PROTOCOL_LLMNR"

(* The three scope members of a Link. *)
ScopeKinds == {"unicast_scope", "llmnr_ipv4_scope", "llmnr_ipv6_scope"}

(* ------------------------------- pools -------------------------------- *)
Ifindexes == 1..MaxIfindex
LinkIds == 1..MaxLinks
AddrIds == 1..MaxAddrs
ServerIds == 1..(2 * MaxNameservers)
ScopeIds == 1..(3 * MaxLinks)
RRIds == 1..(2 * MaxAddrs)

VARIABLES
    m_links,     \* Manager.links: [alloc: hashmap allocated, tbl: ifindex -> Link]
    use_llmnr,   \* Manager.use_llmnr
    host_keys,   \* Manager.host_ipv4_key / host_ipv6_key: family -> created
    links,       \* heap of Link
    addrs,       \* heap of LinkAddress
    servers,     \* heap of DnsServer
    scopes,      \* heap of DnsScope (with its zone)
    rrs,         \* heap of DnsResourceRecord (reference counted)
    operstate,   \* what networkd reports per ifindex ("": nothing) as of the
                 \* last network-monitor event
    ev           \* the last handler that ran: its inputs, result, bookkeeping

vars == <<m_links, use_llmnr, host_keys, links, addrs, servers, scopes, rrs,
          operstate, ev>>

(* ------------------------------ helpers ------------------------------- *)
Range(s) == {s[i] : i \in 1..Len(s)}

ListRemove(s, x) == SelectSeq(s, LAMBDA y : y # x)

Drop(f, x) == [y \in DOMAIN f \ {x} |-> f[y]]

Put(f, x, v) == [y \in DOMAIN f \cup {x} |-> IF y = x THEN v ELSE f[y]]

Min(S) == CHOOSE x \in S : \A y \in S : x <= y

Take(s, n) == SubSeq(s, 1, IF Len(s) < n THEN Len(s) ELSE n)

(* ------------------------- the handler's world ------------------------ *)
World ==
    [m_links |-> m_links, host_keys |-> host_keys, links |-> links,
     addrs |-> addrs, servers |-> servers, scopes |-> scopes, rrs |-> rrs,
     srv_created |-> {}, srv_freed |-> {}, srv_alloc_failed |-> FALSE,
     scope_created |-> {}, scope_freed |-> {}, scope_failed |-> {},
     rr_created |-> {}, rr_failed |-> {}, cursor_reset |-> FALSE,
     rr_unpublished |-> {}, free_log |-> <<>>]

Commit(W) ==
    /\ m_links' = W.m_links
    /\ host_keys' = W.host_keys
    /\ links' = W.links
    /\ addrs' = W.addrs
    /\ servers' = W.servers
    /\ scopes' = W.scopes
    /\ rrs' = W.rrs

SetLink(W, l, field, v) ==
    [W EXCEPT !.links = [@ EXCEPT ![l] = [@ EXCEPT ![field] = v]]]

SetAddr(W, a, field, v) ==
    [W EXCEPT !.addrs = [@ EXCEPT ![a] = [@ EXCEPT ![field] = v]]]

(* The record of the last handler run: which one, on what, what it was
   given (msg: the notification; fetch_ok; parse_failed: a reported
   nameserver does not parse; reported: the (family, address) values
   reported before that one), what it
   returned (r; dns_r: link_update_dns_servers's own result) and what it
   did: objects created and freed, allocations that failed, whether a
   cursor was reset to NULL because the server it was on went away, whether
   address a was deprecated when the handler began, how many records a
   dying address had to take out of a zone, the scope kinds it both freed
   and allocated, and for link_free the order in which it let go of what
   the link owned. *)
NoEvent ==
    [op |-> "none", l |-> NULL, ifindex |-> NULL, a |-> NULL, r |-> OK,
     msg |-> <<>>, fetch_ok |-> TRUE, reported |-> {}, parse_failed |-> FALSE, dns_r |-> OK,
     srv_created |-> 0, srv_freed |-> 0, srv_alloc_failed |-> FALSE,
     scope_failed |-> {},
     rr_created |-> 0, rr_failed |-> {}, reconciled |-> FALSE,
     cursor_reset |-> FALSE, was_deprecated |-> FALSE,
     unpublished |-> 0, scope_realloc |-> {}, free_order |-> <<>>]

Event(W, op, l, r) ==
    [NoEvent EXCEPT !.op = op, !.l = l, !.r = r,
        !.srv_created = Cardinality(W.srv_created),
        !.srv_freed = Cardinality(W.srv_freed),
        !.srv_alloc_failed = W.srv_alloc_failed,
        !.scope_failed = W.scope_failed,
        !.rr_created = Cardinality(W.rr_created), !.rr_failed = W.rr_failed,
        !.cursor_reset = W.cursor_reset,
        !.unpublished = Cardinality(W.rr_unpublished),
        !.scope_realloc = W.scope_created \cap W.scope_freed]

(* ----------------- resource records (reference counted) --------------- *)
dns_resource_record_ref(W, rr) ==
    [W EXCEPT !.rrs = [@ EXCEPT ![rr] = [@ EXCEPT !.n_ref = @ + 1]]]

dns_resource_record_unref(W, rr) ==
    IF rr = NULL THEN W
    ELSE IF W.rrs[rr].n_ref > 1
    THEN [W EXCEPT !.rrs = [@ EXCEPT ![rr] = [@ EXCEPT !.n_ref = @ - 1]]]
    ELSE [W EXCEPT !.rrs = Drop(@, rr)]

RECURSIVE UnrefAll(_, _)
UnrefAll(W, S) ==
    IF S = {} THEN W
    ELSE LET rr == Min(S) IN UnrefAll(dns_resource_record_unref(W, rr), S \ {rr})

(* dns_resource_record_new / dns_resource_record_new_reverse: a fresh record
   holding one reference, or NULL when the allocation fails. *)
NewRRId(W, fail) ==
    IF fail \/ RRIds \ DOMAIN W.rrs = {} THEN NULL ELSE Min(RRIds \ DOMAIN W.rrs)

dns_resource_record_new(W, id, type, family, in_addr) ==
    [W EXCEPT !.rrs = Put(@, id, [type |-> type, family |-> family,
                                  in_addr |-> in_addr, ttl |-> 0, n_ref |-> 1]),
              !.rr_created = @ \cup {id}]

SetTtl(W, rr, ttl) ==
    [W EXCEPT !.rrs = [@ EXCEPT ![rr] = [@ EXCEPT !.ttl = ttl]]]

(* ------------------------------- zones -------------------------------- *)
(* dns_zone_put: already present is not an error; otherwise the zone takes a
   reference, unless the insertion fails. *)
dns_zone_put(W, s, rr, fail) ==
    IF rr \in W.scopes[s].zone THEN [W |-> W, r |-> OK]
    ELSE IF fail THEN [W |-> W, r |-> ENOMEM]
    ELSE [W |-> [dns_resource_record_ref(W, rr) EXCEPT
                    !.scopes = [@ EXCEPT ![s] = [@ EXCEPT !.zone = @ \cup {rr}]]],
          r |-> OK]

dns_zone_remove_rr(W, s, rr) ==
    IF rr = NULL \/ rr \notin W.scopes[s].zone THEN W
    ELSE dns_resource_record_unref(
            [W EXCEPT !.scopes = [@ EXCEPT ![s] = [@ EXCEPT !.zone = @ \ {rr}]]], rr)

(* ------------------------------- scopes ------------------------------- *)
(* dns_scope_new(m, &l->kind, l, protocol, family) *)
dns_scope_new(W, l, kind, protocol, family, fail) ==
    IF fail \/ ScopeIds \ DOMAIN W.scopes = {}
    THEN [W EXCEPT !.scope_failed = @ \cup {kind}]
    ELSE LET s == Min(ScopeIds \ DOMAIN W.scopes) IN
         [SetLink(W, l, kind, s) EXCEPT
            !.scopes = Put(@, s, [link |-> l, protocol |-> protocol,
                                  family |-> family, zone |-> {}]),
            !.scope_created = @ \cup {kind}]

(* l->kind = dns_scope_free(l->kind): the zone is flushed with the scope. *)
dns_scope_free(W, l, kind) ==
    LET s == W.links[l][kind] IN
    IF s = NULL THEN W
    ELSE LET W1 == UnrefAll(W, W.scopes[s].zone) IN
         [SetLink(W1, l, kind, NULL) EXCEPT
            !.scopes = Drop(@, s), !.scope_freed = @ \cup {kind},
            !.free_log = Append(@, kind)]

(* ----------------------------- DNS servers ---------------------------- *)
(* dns_server_new(m, NULL, l, family, &a): appended at the tail of
   l->dns_servers, not marked. *)
dns_server_new(W, l, family, address, fail) ==
    IF fail \/ ServerIds \ DOMAIN W.servers = {}
    THEN [W |-> [W EXCEPT !.srv_alloc_failed = TRUE], r |-> ENOMEM]
    ELSE LET s == Min(ServerIds \ DOMAIN W.servers) IN
         [W |-> [SetLink(W, l, "dns_servers", Append(W.links[l].dns_servers, s))
                   EXCEPT !.servers = Put(@, s, [link |-> l, family |-> family,
                                                 address |-> address, marked |-> FALSE]),
                          !.srv_created = @ \cup {s}],
          r |-> OK]

(* dns_server_free(s): unlinked from its link's list; a cursor on it is
   reset to NULL. *)
dns_server_free(W, s) ==
    LET l == W.servers[s].link
        W1 == SetLink(W, l, "dns_servers", ListRemove(W.links[l].dns_servers, s))
        W2 == IF W1.links[l].current_dns_server = s
              THEN [SetLink(W1, l, "current_dns_server", NULL)
                       EXCEPT !.cursor_reset = TRUE]
              ELSE W1
    IN [W2 EXCEPT !.servers = Drop(@, s), !.srv_freed = @ \cup {s},
                  !.free_log = Append(@, "dns_server")]

(* while (l->dns_servers) dns_server_free(l->dns_servers); *)
RECURSIVE FreeAllServers(_, _)
FreeAllServers(W, l) ==
    IF W.links[l].dns_servers = <<>> THEN W
    ELSE FreeAllServers(dns_server_free(W, Head(W.links[l].dns_servers)), l)

(* in_addr_from_string_auto: the textual forms the network-config service
   may report, and the (family, address) each parses to. *)
Nameservers == {"203.0.113.1", "203.0.113.2", "2001:db8::1", "bogus"}

in_addr_from_string_auto(str) ==
    CASE str = "203.0.113.1" -> [r |-> OK, family |-> AF_INET, a |-> "203.0.113.1"]
      [] str = "203.0.113.2" -> [r |-> OK, family |-> AF_INET, a |-> "203.0.113.2"]
      [] str = "2001:db8::1" -> [r |-> OK, family |-> AF_INET6, a |-> "2001:db8::1"]
      [] OTHER -> [r |-> EINVAL, family |-> AF_UNSPEC, a |-> ""]

in_addr_equal(family, a, b) == a = b

(* Whether an entry of a reported list does not parse, and the (family,
   address) values the list names up to its first such entry (all of the
   list when every entry parses). *)
ParseFailed(nameservers) ==
    \E i \in 1..Len(nameservers) : in_addr_from_string_auto(nameservers[i]).r # OK

Reported(nameservers) ==
    {<<in_addr_from_string_auto(nameservers[i]).family,
       in_addr_from_string_auto(nameservers[i]).a>> :
        i \in {k \in 1..Len(nameservers) :
                  \A j \in 1..k : in_addr_from_string_auto(nameservers[j]).r = OK}}

(* ------------------------- relevance predicates ----------------------- *)
(* Faulty variant: the deprecated flag is not looked at. *)
link_address_relevant_ScopeOnly(W, a) ==
    IF W.addrs[a].scope \in {RT_SCOPE_HOST, RT_SCOPE_NOWHERE} THEN FALSE
    ELSE TRUE

link_address_relevant(W, a) ==
    IF IFA_F_DEPRECATED \in W.addrs[a].flags THEN FALSE
    ELSE IF W.addrs[a].scope \in {RT_SCOPE_HOST, RT_SCOPE_NOWHERE} THEN FALSE
    ELSE TRUE

(* Faulty variant: the operational state is not looked at. *)
link_relevant_NoOperstate(W, l, family, state) ==
    IF IFF_LOOPBACK \in W.links[l].flags THEN FALSE
    ELSE \E i \in 1..Len(W.links[l].addresses) :
            LET a == W.links[l].addresses[i] IN
            W.addrs[a].family = family /\ link_address_relevant(W, a)

(* state is what sd_network_get_link_operational_state() hands back for
   l->ifindex: a state name, or "" for NULL (nothing reported). *)
link_relevant(W, l, family, state) ==
    IF IFF_LOOPBACK \in W.links[l].flags THEN FALSE
    ELSE IF state # "" /\ state \notin {"unknown", "degraded", "routable"} THEN FALSE
    ELSE \E i \in 1..Len(W.links[l].addresses) :
            LET a == W.links[l].addresses[i] IN
            W.addrs[a].family = family /\ link_address_relevant(W, a)

(* ------------------------------ lookups ------------------------------- *)
(* Faulty variant: the walk starts after the head of the list. *)
link_find_address_SkipHead(W, l, family, in_addr) ==
    LET hits == {i \in 2..Len(W.links[l].addresses) :
                    LET a == W.links[l].addresses[i] IN
                    W.addrs[a].family = family
                    /\ in_addr_equal(family, W.addrs[a].in_addr, in_addr)}
    IN IF hits = {} THEN NULL ELSE W.links[l].addresses[Min(hits)]

link_find_address(W, l, family, in_addr) ==
    LET hits == {i \in 1..Len(W.links[l].addresses) :
                    LET a == W.links[l].addresses[i] IN
                    W.addrs[a].family = family
                    /\ in_addr_equal(family, W.addrs[a].in_addr, in_addr)}
    IN IF hits = {} THEN NULL ELSE W.links[l].addresses[Min(hits)]

(* Faulty variant: the lookup compares the family only. *)
link_find_dns_server_FamilyOnly(W, l, family, in_addr) ==
    LET hits == {i \in 1..Len(W.links[l].dns_servers) :
                    W.servers[W.links[l].dns_servers[i]].family = family}
    IN IF hits = {} THEN NULL ELSE W.links[l].dns_servers[Min(hits)]

link_find_dns_server(W, l, family, in_addr) ==
    LET hits == {i \in 1..Len(W.links[l].dns_servers) :
                    LET s == W.links[l].dns_servers[i] IN
                    W.servers[s].family = family
                    /\ in_addr_equal(family, W.servers[s].address, in_addr)}
    IN IF hits = {} THEN NULL ELSE W.links[l].dns_servers[Min(hits)]

(* --------------------------- scope allocator -------------------------- *)
(* Faulty variant: a wanted scope is freed and allocated anew on every run. *)
AllocateScope_Fresh(W, l, kind, wanted, protocol, family, fail) ==
    IF wanted
    THEN dns_scope_new(dns_scope_free(W, l, kind), l, kind, protocol, family, fail)
    ELSE dns_scope_free(W, l, kind)

(* One of the three stanzas of link_allocate_scopes. *)
AllocateScope(W, l, kind, wanted, protocol, family, fail) ==
    IF wanted
    THEN IF W.links[l][kind] = NULL
         THEN dns_scope_new(W, l, kind, protocol, family, fail)
         ELSE W
    ELSE dns_scope_free(W, l, kind)

(* Faulty variant: the unicast scope follows the cursor, not the list. *)
link_allocate_scopes_ByCursor(W, l, state, sf) ==
    LET W1 == AllocateScope(W, l, "unicast_scope",
                  W.links[l].current_dns_server # NULL,
                  DNS_PROTOCOL_DNS, AF_UNSPEC, "unicast_scope" \in sf)
        W2 == AllocateScope(W1, l, "llmnr_ipv4_scope",
                  link_relevant(W1, l, AF_INET, state)
                     /\ IFF_MULTICAST \in W1.links[l].flags /\ use_llmnr,
                  DNS_PROTOCOL_LLMNR, AF_INET, "llmnr_ipv4_scope" \in sf)
    IN AllocateScope(W2, l, "llmnr_ipv6_scope",
                  link_relevant(W2, l, AF_INET6, state)
                     /\ IFF_MULTICAST \in W2.links[l].flags /\ use_llmnr,
                  DNS_PROTOCOL_LLMNR, AF_INET6, "llmnr_ipv6_scope" \in sf)

(* sf: the kinds whose dns_scope_new, if called, fails. *)
link_allocate_scopes(W, l, state, sf) ==
    LET W1 == AllocateScope(W, l, "unicast_scope",
                  W.links[l].dns_servers # <<>>,
                  DNS_PROTOCOL_DNS, AF_UNSPEC, "unicast_scope" \in sf)
        W2 == AllocateScope(W1, l, "llmnr_ipv4_scope",
                  link_relevant(W1, l, AF_INET, state)
                     /\ IFF_MULTICAST \in W1.links[l].flags /\ use_llmnr,
                  DNS_PROTOCOL_LLMNR, AF_INET, "llmnr_ipv4_scope" \in sf)
    IN AllocateScope(W2, l, "llmnr_ipv6_scope",
                  link_relevant(W2, l, AF_INET6, state)
                     /\ IFF_MULTICAST \in W2.links[l].flags /\ use_llmnr,
                  DNS_PROTOCOL_LLMNR, AF_INET6, "llmnr_ipv6_scope" \in sf)

(* -------------------------- record synchronizer ----------------------- *)
FamilyScope(family) ==
    IF family = AF_INET THEN "llmnr_ipv4_scope" ELSE "llmnr_ipv6_scope"

(* The points of link_address_add_rrs at which an allocation or a zone
   insertion can fail ("none": nothing fails). *)
FailPoints == {"none", "key", "address_rr", "ptr_rr", "put_address", "put_ptr"}

(* Faulty variant: a record is created on every run. *)
RecordMissing_Always(W, a, field) == TRUE

(* if (!a->llmnr_address_rr) / if (!a->llmnr_ptr_rr) *)
RecordMissing(W, a, field) == W.addrs[a][field] = NULL

(* fp: the step that fails, if the run gets to it and it needs to allocate. *)
link_address_add_rrs(W, a, fp) ==
    LET A == W.addrs[a]
        l == A.link
        s == W.links[l][FamilyScope(A.family)]
        fail(X) == [X EXCEPT !.rr_failed = @ \cup {a}]
    IN
    IF s = NULL THEN W
    ELSE IF ~W.host_keys[A.family] /\ fp = "key" THEN fail(W)
    ELSE
    LET W1 == [W EXCEPT !.host_keys = [@ EXCEPT ![A.family] = TRUE]]
        id1 == NewRRId(W1, fp = "address_rr")
    IN
    IF RecordMissing(W1, a, "llmnr_address_rr") /\ id1 = NULL THEN fail(W1)
    ELSE
    LET W2 == IF ~RecordMissing(W1, a, "llmnr_address_rr") THEN W1
              ELSE SetTtl(SetAddr(dns_resource_record_new(W1, id1,
                                      IF A.family = AF_INET THEN "A" ELSE "AAAA",
                                      A.family, A.in_addr),
                                  a, "llmnr_address_rr", id1),
                          id1, LLMNR_DEFAULT_TTL)
        id2 == NewRRId(W2, fp = "ptr_rr")
    IN
    IF RecordMissing(W2, a, "llmnr_ptr_rr") /\ id2 = NULL THEN fail(W2)
    ELSE
    LET W3 == IF ~RecordMissing(W2, a, "llmnr_ptr_rr") THEN W2
              ELSE SetTtl(SetAddr(dns_resource_record_new(W2, id2, "PTR",
                                      A.family, A.in_addr),
                                  a, "llmnr_ptr_rr", id2),
                          id2, LLMNR_DEFAULT_TTL)
        rr1 == W3.addrs[a].llmnr_address_rr
        rr2 == W3.addrs[a].llmnr_ptr_rr
    IN
    IF link_address_relevant(W3, a)
    THEN LET P1 == dns_zone_put(W3, s, rr1, fp = "put_address") IN
         IF P1.r # OK THEN fail(P1.W)
         ELSE LET P2 == dns_zone_put(P1.W, s, rr2, fp = "put_ptr") IN
              IF P2.r # OK THEN fail(P2.W) ELSE P2.W
    ELSE dns_zone_remove_rr(dns_zone_remove_rr(W3, s, rr1), s, rr2)

(* Faulty variant: the walk stops at the first address whose records fail. *)
RECURSIVE AddRRsFrom_StopOnFail(_, _, _, _)
AddRRsFrom_StopOnFail(W, l, i, rf) ==
    IF i > Len(W.links[l].addresses) \/ W.rr_failed # {} THEN W
    ELSE LET a == W.links[l].addresses[i] IN
         AddRRsFrom_StopOnFail(link_address_add_rrs(W, a, rf[a]), l, i + 1, rf)

(* LIST_FOREACH(addresses, a, l->addresses) link_address_add_rrs(a);
   rf: address -> the step that fails for it. *)
RECURSIVE AddRRsFrom(_, _, _, _)
AddRRsFrom(W, l, i, rf) ==
    IF i > Len(W.links[l].addresses) THEN W
    ELSE LET a == W.links[l].addresses[i] IN
         AddRRsFrom(link_address_add_rrs(W, a, rf[a]), l, i + 1, rf)

(* Faulty variant: only the head of the list is synchronized. *)
link_add_rrs_HeadOnly(W, l, rf) ==
    IF W.links[l].addresses = <<>> THEN W
    ELSE link_address_add_rrs(W, Head(W.links[l].addresses),
                              rf[Head(W.links[l].addresses)])

link_add_rrs(W, l, rf) == AddRRsFrom(W, l, 1, rf)

(* ------------------------------ addresses ----------------------------- *)
link_address_new(W, l, family, in_addr, oom) ==
    IF oom \/ AddrIds \ DOMAIN W.addrs = {} THEN [W |-> W, r |-> ENOMEM, a |-> NULL]
    ELSE LET a == Min(AddrIds \ DOMAIN W.addrs) IN
         [W |-> [SetLink(W, l, "addresses", <<a>> \o W.links[l].addresses) EXCEPT
                    !.addrs = Put(@, a, [link |-> l, family |-> family,
                                         in_addr |-> in_addr, flags |-> {},
                                         scope |-> RT_SCOPE_UNIVERSE,
                                         llmnr_address_rr |-> NULL,
                                         llmnr_ptr_rr |-> NULL])],
          r |-> OK, a |-> a]

(* Faulty variant: the dying address drops its reference without taking
   the record out of the zone. *)
ReleaseRR_NoUnpublish(W, a, rr) ==
    IF rr = NULL THEN W ELSE dns_resource_record_unref(W, rr)

(* The unpublish-then-unref of one record of a dying address. *)
ReleaseRR(W, a, rr) ==
    IF rr = NULL THEN W
    ELSE LET A == W.addrs[a]
             L == W.links[A.link]
             s == IF A.family = AF_INET /\ L.llmnr_ipv4_scope # NULL
                  THEN L.llmnr_ipv4_scope
                  ELSE IF A.family = AF_INET6 /\ L.llmnr_ipv6_scope # NULL
                  THEN L.llmnr_ipv6_scope
                  ELSE NULL
             W1 == IF s # NULL /\ rr \in W.scopes[s].zone
                   THEN [dns_zone_remove_rr(W, s, rr) EXCEPT
                            !.rr_unpublished = @ \cup {rr}]
                   ELSE W
         IN dns_resource_record_unref(W1, rr)

link_address_free(W, a) ==
    LET l == W.addrs[a].link
        W1 == SetLink(W, l, "addresses", ListRemove(W.links[l].addresses, a))
        W2 == ReleaseRR(W1, a, W1.addrs[a].llmnr_address_rr)
        W3 == ReleaseRR(W2, a, W2.addrs[a].llmnr_ptr_rr)
    IN [W3 EXCEPT !.addrs = Drop(@, a), !.free_log = Append(@, "address")]

(* while (l->addresses) link_address_free(l->addresses); *)
RECURSIVE FreeAllAddresses(_, _)
FreeAllAddresses(W, l) ==
    IF W.links[l].addresses = <<>> THEN W
    ELSE FreeAllAddresses(link_address_free(W, Head(W.links[l].addresses)), l)

(* ------------------------------ registry ------------------------------ *)
(* hashmap_put: -EEXIST when the key is taken by another value. *)
hashmap_put(h, key, value, oom) ==
    IF key \in DOMAIN h.tbl
    THEN [h |-> h, r |-> IF h.tbl[key] = value THEN OK ELSE EEXIST]
    ELSE IF oom THEN [h |-> h, r |-> ENOMEM]
    ELSE [h |-> [h EXCEPT !.tbl = Put(@, key, value)], r |-> OK]

hashmap_remove(h, key) ==
    IF key \in DOMAIN h.tbl THEN [h EXCEPT !.tbl = Drop(@, key)] ELSE h

NewLink(ifindex) ==
    [ifindex |-> ifindex, manager |-> FALSE, flags |-> {}, mtu |-> 0,
     name |-> <<>>, addresses |-> <<>>, dns_servers |-> <<>>,
     current_dns_server |-> NULL, unicast_scope |-> NULL,
     llmnr_ipv4_scope |-> NULL, llmnr_ipv6_scope |-> NULL]

(* Faulty variant: the scopes are freed before the addresses. *)
link_free_ScopesFirst(W, l) ==
    LET W1 == dns_scope_free(W, l, "unicast_scope")
        W2 == dns_scope_free(W1, l, "llmnr_ipv4_scope")
        W3 == dns_scope_free(W2, l, "llmnr_ipv6_scope")
        W4 == FreeAllAddresses(W3, l)
        W5 == IF W4.links[l].manager
              THEN [W4 EXCEPT !.m_links = hashmap_remove(@, W4.links[l].ifindex)]
              ELSE W4
        W6 == FreeAllServers(W5, l)
    IN [W6 EXCEPT !.links = Drop(@, l)]

(* Faulty variant: the registry entry of l->ifindex is removed whether or not
   the link was ever put in the registry. *)
link_free_AlwaysRemove(W, l) ==
    LET W1 == FreeAllAddresses(W, l)
        W2 == [W1 EXCEPT !.m_links = hashmap_remove(@, W1.links[l].ifindex)]
        W3 == dns_scope_free(W2, l, "unicast_scope")
        W4 == dns_scope_free(W3, l, "llmnr_ipv4_scope")
        W5 == dns_scope_free(W4, l, "llmnr_ipv6_scope")
        W6 == FreeAllServers(W5, l)
    IN [W6 EXCEPT !.links = Drop(@, l)]

link_free(W, l) ==
    LET W1 == FreeAllAddresses(W, l)
        W2 == IF W1.links[l].manager
              THEN [W1 EXCEPT !.m_links = hashmap_remove(@, W1.links[l].ifindex)]
              ELSE W1
        W3 == dns_scope_free(W2, l, "unicast_scope")
        W4 == dns_scope_free(W3, l, "llmnr_ipv4_scope")
        W5 == dns_scope_free(W4, l, "llmnr_ipv6_scope")
        W6 == FreeAllServers(W5, l)
    IN [W6 EXCEPT !.links = Drop(@, l)]

(* fail: the step of link_new that runs out of memory ("none": nothing). *)
LinkNewFails == {"none", "hashmap_ensure_allocated", "new0", "hashmap_put"}

(* Faulty variant: l->manager is set before the link is put in the
   registry, so the cleanup of a failed put removes the entry of its key. *)
link_new_ManagerFirst(W, ifindex, fail) ==
    IF ~W.m_links.alloc /\ fail = "hashmap_ensure_allocated"
    THEN [W |-> W, r |-> ENOMEM, l |-> NULL]
    ELSE
    LET W1 == [W EXCEPT !.m_links = [@ EXCEPT !.alloc = TRUE]] IN
    IF fail = "new0" \/ LinkIds \ DOMAIN W1.links = {}
    THEN [W |-> W1, r |-> ENOMEM, l |-> NULL]
    ELSE
    LET l == Min(LinkIds \ DOMAIN W1.links)
        W2 == [W1 EXCEPT !.links = Put(@, l, [NewLink(ifindex) EXCEPT !.manager = TRUE])]
        P == hashmap_put(W2.m_links, ifindex, l, fail = "hashmap_put")
    IN
    IF P.r # OK
    THEN [W |-> link_free(W2, l), r |-> P.r, l |-> NULL]
    ELSE [W |-> [W2 EXCEPT !.m_links = P.h], r |-> OK, l |-> l]

(* Faulty variant: a failed hashmap_put returns without freeing the new link. *)
link_new_Leak(W, ifindex, fail) ==
    IF ~W.m_links.alloc /\ fail = "hashmap_ensure_allocated"
    THEN [W |-> W, r |-> ENOMEM, l |-> NULL]
    ELSE
    LET W1 == [W EXCEPT !.m_links = [@ EXCEPT !.alloc = TRUE]] IN
    IF fail = "new0" \/ LinkIds \ DOMAIN W1.links = {}
    THEN [W |-> W1, r |-> ENOMEM, l |-> NULL]
    ELSE
    LET l == Min(LinkIds \ DOMAIN W1.links)
        W2 == [W1 EXCEPT !.links = Put(@, l, NewLink(ifindex))]
        P == hashmap_put(W2.m_links, ifindex, l, fail = "hashmap_put")
    IN
    IF P.r # OK
    THEN [W |-> W2, r |-> P.r, l |-> NULL]
    ELSE [W |-> SetLink([W2 EXCEPT !.m_links = P.h], l, "manager", TRUE),
          r |-> OK, l |-> l]

link_new(W, ifindex, fail) ==
    IF ~W.m_links.alloc /\ fail = "hashmap_ensure_allocated"
    THEN [W |-> W, r |-> ENOMEM, l |-> NULL]
    ELSE
    LET W1 == [W EXCEPT !.m_links = [@ EXCEPT !.alloc = TRUE]] IN
    IF fail = "new0" \/ LinkIds \ DOMAIN W1.links = {}
    THEN [W |-> W1, r |-> ENOMEM, l |-> NULL]
    ELSE
    LET l == Min(LinkIds \ DOMAIN W1.links)
        W2 == [W1 EXCEPT !.links = Put(@, l, NewLink(ifindex))]
        P == hashmap_put(W2.m_links, ifindex, l, fail = "hashmap_put")
    IN
    IF P.r # OK
    THEN [W |-> link_free(W2, l), r |-> P.r, l |-> NULL]
    ELSE [W |-> SetLink([W2 EXCEPT !.m_links = P.h], l, "manager", TRUE),
          r |-> OK, l |-> l]

(* ----------------------- DNS-server-list reconciler ------------------- *)
(* LIST_FOREACH(servers, s, l->dns_servers) s->marked = true; *)
MarkAll(W, l) ==
    [W EXCEPT !.servers = [s \in DOMAIN @ |->
        IF @[s].link = l THEN [@[s] EXCEPT !.marked = TRUE] ELSE @[s]]]

(* Faulty variant: an entry that does not parse is skipped instead of aborting. *)
RECURSIVE ForEachNameserver_SkipBad(_, _, _, _, _)
ForEachNameserver_SkipBad(W, l, nameservers, i, failAt) ==
    IF i > Len(nameservers) THEN [W |-> W, r |-> OK]
    ELSE
    LET p == in_addr_from_string_auto(nameservers[i]) IN
    IF p.r # OK THEN ForEachNameserver_SkipBad(W, l, nameservers, i + 1, failAt)
    ELSE
    LET s == link_find_dns_server(W, l, p.family, p.a) IN
    IF s # NULL
    THEN ForEachNameserver_SkipBad(
            [W EXCEPT !.servers = [@ EXCEPT ![s] = [@ EXCEPT !.marked = FALSE]]],
            l, nameservers, i + 1, failAt)
    ELSE
    LET n == dns_server_new(W, l, p.family, p.a, failAt = i) IN
    IF n.r # OK THEN n
    ELSE ForEachNameserver_SkipBad(n.W, l, nameservers, i + 1, failAt)

(* Faulty variant: a server found again is not unmarked. *)
RECURSIVE ForEachNameserver_NoUnmark(_, _, _, _, _)
ForEachNameserver_NoUnmark(W, l, nameservers, i, failAt) ==
    IF i > Len(nameservers) THEN [W |-> W, r |-> OK]
    ELSE
    LET p == in_addr_from_string_auto(nameservers[i]) IN
    IF p.r # OK THEN [W |-> W, r |-> p.r]
    ELSE
    LET s == link_find_dns_server(W, l, p.family, p.a) IN
    IF s # NULL
    THEN ForEachNameserver_NoUnmark(W, l, nameservers, i + 1, failAt)
    ELSE
    LET n == dns_server_new(W, l, p.family, p.a, failAt = i) IN
    IF n.r # OK THEN n
    ELSE ForEachNameserver_NoUnmark(n.W, l, nameservers, i + 1, failAt)

(* STRV_FOREACH(nameserver, nameservers) ...; failAt: the iteration whose
   dns_server_new, if called, fails (0: none). *)
RECURSIVE ForEachNameserver(_, _, _, _, _)
ForEachNameserver(W, l, nameservers, i, failAt) ==
    IF i > Len(nameservers) THEN [W |-> W, r |-> OK]
    ELSE
    LET p == in_addr_from_string_auto(nameservers[i]) IN
    IF p.r # OK THEN [W |-> W, r |-> p.r]
    ELSE
    LET s == link_find_dns_server(W, l, p.family, p.a) IN
    IF s # NULL
    THEN ForEachNameserver(
            [W EXCEPT !.servers = [@ EXCEPT ![s] = [@ EXCEPT !.marked = FALSE]]],
            l, nameservers, i + 1, failAt)
    ELSE
    LET n == dns_server_new(W, l, p.family, p.a, failAt = i) IN
    IF n.r # OK THEN n
    ELSE ForEachNameserver(n.W, l, nameservers, i + 1, failAt)

(* LIST_FOREACH_SAFE(servers, s, nx, l->dns_servers) if (s->marked) dns_server_free(s); *)
RECURSIVE SweepFrom(_, _, _)
SweepFrom(W, l, todo) ==
    IF todo = <<>> THEN W
    ELSE SweepFrom(IF W.servers[Head(todo)].marked
                   THEN dns_server_free(W, Head(todo)) ELSE W,
                   l, Tail(todo))

(* Faulty variant: the sweep unlinks and frees the marked entries by hand, leaving
   the link's cursor alone. *)
Sweep_ByHand(W, l) ==
    LET stale == {s \in Range(W.links[l].dns_servers) : W.servers[s].marked} IN
    [SetLink(W, l, "dns_servers",
             SelectSeq(W.links[l].dns_servers, LAMBDA s : s \notin stale))
        EXCEPT !.servers = [s \in DOMAIN @ \ stale |-> @[s]],
               !.srv_freed = @ \cup stale,
               !.free_log = @ \o [i \in 1..Cardinality(stale) |-> "dns_server"]]

Sweep(W, l) == SweepFrom(W, l, W.links[l].dns_servers)

(* fetch_ok, nameservers: what sd_network_get_dns() returns. *)
link_update_dns_servers(W, l, fetch_ok, nameservers, failAt) ==
    LET W1 == MarkAll(W, l) IN
    IF ~fetch_ok THEN [W |-> FreeAllServers(W1, l), r |-> ENODATA]
    ELSE
    LET F == ForEachNameserver(W1, l, nameservers, 1, failAt) IN
    IF F.r # OK THEN [W |-> FreeAllServers(F.W, l), r |-> F.r]
    ELSE [W |-> Sweep(F.W, l), r |-> OK]

(* ------------------------------- cursor ------------------------------- *)
link_get_dns_server(W, l) ==
    IF W.links[l].current_dns_server = NULL
    THEN SetLink(W, l, "current_dns_server",
                 IF W.links[l].dns_servers = <<>> THEN NULL
                 ELSE Head(W.links[l].dns_servers))
    ELSE W

(* s->servers_next: the entry after s in its link's list, or NULL. *)
servers_next(W, l, s) ==
    LET list == W.links[l].dns_servers
        i == CHOOSE k \in 1..Len(list) : list[k] = s
    IN IF i < Len(list) THEN list[i + 1] ELSE NULL

(* Faulty variant: the cursor does not wrap, it stays on the last entry. *)
link_next_dns_server_NoWrap(W, l) ==
    LET L == W.links[l]
        head == IF L.dns_servers = <<>> THEN NULL ELSE Head(L.dns_servers)
    IN
    IF L.current_dns_server = NULL
    THEN SetLink(W, l, "current_dns_server", head)
    ELSE IF servers_next(W, l, L.current_dns_server) # NULL
    THEN SetLink(W, l, "current_dns_server", servers_next(W, l, L.current_dns_server))
    ELSE W

link_next_dns_server(W, l) ==
    LET L == W.links[l]
        head == IF L.dns_servers = <<>> THEN NULL ELSE Head(L.dns_servers)
    IN
    IF L.current_dns_server = NULL
    THEN SetLink(W, l, "current_dns_server", head)
    ELSE IF servers_next(W, l, L.current_dns_server) # NULL
    THEN SetLink(W, l, "current_dns_server", servers_next(W, l, L.current_dns_server))
    ELSE SetLink(W, l, "current_dns_server", head)

(* ============================== handlers ============================== *)
Init ==
    /\ m_links = [alloc |-> FALSE, tbl |-> <<>>]
    /\ use_llmnr \in BOOLEAN
    /\ host_keys = [f \in Families |-> FALSE]
    /\ links = <<>>
    /\ addrs = <<>>
    /\ servers = <<>>
    /\ scopes = <<>>
    /\ rrs = <<>>
    /\ operstate = [i \in Ifindexes |-> ""]
    /\ ev = NoEvent

(* link_new(m, &l, ifindex) *)
LinkNew(ifindex, fail) ==
    LET R == link_new(World, ifindex, fail) IN
    /\ Commit(R.W)
    /\ ev' = [Event(R.W, "link_new", R.l, R.r) EXCEPT !.ifindex = ifindex]
    /\ UNCHANGED <<use_llmnr, operstate>>

(* link_free(l) *)
LinkFree(l) ==
    LET W == link_free(World, l) IN
    /\ Commit(W)
    /\ ev' = [Event(W, "link_free", l, OK) EXCEPT
                !.ifindex = links[l].ifindex, !.free_order = W.free_log]
    /\ UNCHANGED <<use_llmnr, operstate>>

(* Faulty variant: a failure to read the MTU makes the handler return. *)
link_update_rtnl_MtuFatal(W, l, m, sf, rf) ==
    IF ~m.flags_ok THEN [W |-> W, r |-> EINVAL, reconciled |-> FALSE]
    ELSE
    LET W1 == SetLink(W, l, "flags", m.flags) IN
    IF ~m.mtu_ok THEN [W |-> W1, r |-> EINVAL, reconciled |-> FALSE]
    ELSE
    LET W2 == SetLink(W1, l, "mtu", m.mtu)
        W3 == IF m.name_ok
              THEN SetLink(W2, l, "name", Take(m.name, IF_NAMESIZE - 1)) ELSE W2
        W4 == link_allocate_scopes(W3, l, operstate[W3.links[l].ifindex], sf)
    IN [W |-> link_add_rrs(W4, l, rf), r |-> OK, reconciled |-> TRUE]

(* link_update_rtnl(l, m): m carries what each decoder call yields. *)
link_update_rtnl(W, l, m, sf, rf) ==
    IF ~m.flags_ok THEN [W |-> W, r |-> EINVAL, reconciled |-> FALSE]
    ELSE
    LET W1 == SetLink(W, l, "flags", m.flags)
        W2 == IF m.mtu_ok THEN SetLink(W1, l, "mtu", m.mtu) ELSE W1
        W3 == IF m.name_ok
              THEN SetLink(W2, l, "name", Take(m.name, IF_NAMESIZE - 1)) ELSE W2
        W4 == link_allocate_scopes(W3, l, operstate[W3.links[l].ifindex], sf)
    IN [W |-> link_add_rrs(W4, l, rf), r |-> OK, reconciled |-> TRUE]

LinkUpdateRtnl(l, m, sf, rf) ==
    LET R == link_update_rtnl(World, l, m, sf, rf) IN
    /\ Commit(R.W)
    /\ ev' = [Event(R.W, "link_update_rtnl", l, R.r) EXCEPT
                !.reconciled = R.reconciled, !.ifindex = links[l].ifindex,
                !.msg = m]
    /\ UNCHANGED <<use_llmnr, operstate>>

(* link_update_monitor(l), run on a network-monitor event: state is the
   operational state networkd reports from now on. *)
link_update_monitor(W, l, fetch_ok, nameservers, state, failAt, sf, rf) ==
    LET D == link_update_dns_servers(W, l, fetch_ok, nameservers, failAt)
        W1 == link_allocate_scopes(D.W, l, state, sf)
    IN [W |-> link_add_rrs(W1, l, rf), r |-> OK, dns_r |-> D.r]

LinkUpdateMonitor(l, fetch_ok, nameservers, state, failAt, sf, rf) ==
    LET R == link_update_monitor(World, l, fetch_ok, nameservers, state, failAt, sf, rf) IN
    /\ Commit(R.W)
    /\ operstate' = [operstate EXCEPT ![links[l].ifindex] = state]
    /\ ev' = [Event(R.W, "link_update_monitor", l, R.r) EXCEPT
                !.reconciled = TRUE, !.ifindex = links[l].ifindex,
                !.fetch_ok = fetch_ok, !.reported = Reported(nameservers),
                !.parse_failed = ParseFailed(nameservers), !.dns_r = R.dns_r]
    /\ UNCHANGED use_llmnr

(* link_get_dns_server(l) *)
LinkGetDnsServer(l) ==
    LET W == link_get_dns_server(World, l) IN
    /\ Commit(W)
    /\ ev' = [Event(W, "link_get_dns_server", l, OK) EXCEPT
                !.ifindex = links[l].ifindex]
    /\ UNCHANGED <<use_llmnr, operstate>>

(* link_next_dns_server(l) *)
LinkNextDnsServer(l) ==
    LET W == link_next_dns_server(World, l) IN
    /\ Commit(W)
    /\ ev' = [Event(W, "link_next_dns_server", l, OK) EXCEPT
                !.ifindex = links[l].ifindex]
    /\ UNCHANGED <<use_llmnr, operstate>>

(* link_address_new(l, &a, family, &in_addr) *)
LinkAddressNew(l, family, in_addr, oom) ==
    LET R == link_address_new(World, l, family, in_addr, oom) IN
    /\ Commit(R.W)
    /\ ev' = [Event(R.W, "link_address_new", l, R.r) EXCEPT
                !.ifindex = links[l].ifindex, !.a = R.a]
    /\ UNCHANGED <<use_llmnr, operstate>>

(* link_address_free(a) *)
LinkAddressFree(a) ==
    LET W == link_address_free(World, a) IN
    /\ Commit(W)
    /\ ev' = [Event(W, "link_address_free", addrs[a].link, OK) EXCEPT
                !.ifindex = links[addrs[a].link].ifindex, !.a = a]
    /\ UNCHANGED <<use_llmnr, operstate>>

(* link_address_update_rtnl(a, m) *)
link_address_update_rtnl(W, a, m, sf, rf) ==
    IF ~m.flags_ok THEN [W |-> W, r |-> EINVAL, reconciled |-> FALSE]
    ELSE
    LET l == W.addrs[a].link
        W1 == SetAddr(W, a, "flags", m.flags)
        W2 == IF m.scope_ok THEN SetAddr(W1, a, "scope", m.scope) ELSE W1
        W3 == link_allocate_scopes(W2, l, operstate[W2.links[l].ifindex], sf)
    IN [W |-> link_add_rrs(W3, l, rf), r |-> OK, reconciled |-> TRUE]

LinkAddressUpdateRtnl(a, m, sf, rf) ==
    LET R == link_address_update_rtnl(World, a, m, sf, rf) IN
    /\ Commit(R.W)
    /\ ev' = [Event(R.W, "link_address_update_rtnl", addrs[a].link, R.r) EXCEPT
                !.reconciled = R.reconciled,
                !.ifindex = links[addrs[a].link].ifindex, !.a = a,
                !.was_deprecated = IFA_F_DEPRECATED \in addrs[a].flags,
                !.msg = m]
    /\ UNCHANGED <<use_llmnr, operstate>>

(* =========================== specifications =========================== *)
SeqsUpTo(S, n) == UNION {[1..k -> S] : k \in 0..n}

(* What a handler's reconciliation may run into: the scope kinds of K
   whose allocation fails. *)
ScopeFails(K) == SUBSET K

(* The manager with LLMNR enabled. *)
InitLlmnrOn == Init /\ use_llmnr

(* ---- the DNS-server list, its cursor and the unicast scope of one link *)
NextDns ==
    \/ 1 \notin DOMAIN m_links.tbl /\ LinkNew(1, "none")
    \/ \E l \in DOMAIN links : LinkFree(l)
    \/ \E l \in DOMAIN links, ns \in SeqsUpTo(Nameservers, MaxNameservers) :
       \E failAt \in 0..Len(ns), sf \in ScopeFails({"unicast_scope"}) :
            LinkUpdateMonitor(l, TRUE, ns, "", failAt, sf, <<>>)
    \/ \E l \in DOMAIN links, sf \in ScopeFails({"unicast_scope"}) :
            LinkUpdateMonitor(l, FALSE, <<>>, "", 0, sf, <<>>)
    \/ \E l \in DOMAIN links : LinkGetDnsServer(l)
    \/ \E l \in DOMAIN links : LinkNextDnsServer(l)

SpecDns == InitLlmnrOn /\ [][NextDns]_vars


(* ---- what the kernel and networkd may report -------------------------- *)
LinkFlagSets == SUBSET {IFF_LOOPBACK, IFF_MULTICAST}

OperStates == {"", "unknown", "degraded", "routable", "carrier"}

LinkMsg(flags_ok, flags) ==
    [flags_ok |-> flags_ok, flags |-> flags, mtu_ok |-> TRUE, mtu |-> 1500,
     name_ok |-> TRUE, name |-> <<"e", "t", "h", "0">>]

AddrMsg(flags_ok, flags, scope) ==
    [flags_ok |-> flags_ok, flags |-> flags, scope_ok |-> TRUE, scope |-> scope]

NoRRFails(l) == [a \in Range(links[l].addresses) |-> "none"]

(* At most one thing goes wrong in a reconciliation of link l: the
   allocation of one scope of K, or one step of one address's records. *)
OneScopeFault(K) == {{}} \cup {{k} : k \in K}

OneFault(l, K) ==
    {<<sf, NoRRFails(l)>> : sf \in OneScopeFault(K)}
    \cup {<<{}, [NoRRFails(l) EXCEPT ![a] = fp]>> :
             a \in Range(links[l].addresses), fp \in FailPoints \ {"none"}}

LlmnrKinds == {"llmnr_ipv4_scope", "llmnr_ipv6_scope"}

(* ---- the three scopes of one link against their preconditions --------- *)
(* The link has one address at a time, of either family; every condition
   a scope depends on changes in both directions. *)
ScopesAddrs == {<<AF_INET, "192.0.2.7">>, <<AF_INET6, "2001:db8::7">>}

ScopesLinkMsgs ==
    {LinkMsg(FALSE, {})} \cup {LinkMsg(TRUE, f) : f \in LinkFlagSets}

ScopesAddrMsgs ==
    {AddrMsg(FALSE, {}, RT_SCOPE_UNIVERSE)}
    \cup {AddrMsg(TRUE, f, s) : f \in {{}, {IFA_F_DEPRECATED}},
                               s \in {RT_SCOPE_UNIVERSE, RT_SCOPE_HOST}}

NextScopes ==
    \/ 1 \notin DOMAIN m_links.tbl /\ LinkNew(1, "none")
    \/ \E l \in DOMAIN links : LinkFree(l)
    \/ \E l \in DOMAIN links, m \in ScopesLinkMsgs, sf \in OneScopeFault(LlmnrKinds) :
            LinkUpdateRtnl(l, m, sf, NoRRFails(l))
    \/ \E l \in DOMAIN links, state \in OperStates,
          ns \in {<<>>, <<"203.0.113.1">>}, sf \in OneScopeFault(ScopeKinds) :
            LinkUpdateMonitor(l, TRUE, ns, state, 0, sf, NoRRFails(l))
    \/ \E l \in DOMAIN links, k \in ScopesAddrs, oom \in BOOLEAN :
         /\ Len(links[l].addresses) < MaxScopesAddrs
         /\ link_find_address(World, l, k[1], k[2]) = NULL
         /\ LinkAddressNew(l, k[1], k[2], oom)
    \/ \E a \in DOMAIN addrs : LinkAddressFree(a)
    \/ \E a \in DOMAIN addrs, m \in ScopesAddrMsgs, sf \in OneScopeFault(LlmnrKinds) :
            LinkAddressUpdateRtnl(a, m, sf, NoRRFails(addrs[a].link))

SpecScopes == Init /\ [][NextScopes]_vars

(* ---- the records of the IPv4 addresses of one link --------------------- *)
(* LLMNR is on; the link has up to two IPv4 addresses; the multicast flag
   and the deprecated flags toggle; any one allocation or zone insertion of
   a reconciliation may fail. *)
RecordsAddrs == {<<AF_INET, "192.0.2.7">>, <<AF_INET, "192.0.2.8">>}

RecordsLinkMsgs == {LinkMsg(TRUE, {}), LinkMsg(TRUE, {IFF_MULTICAST})}

RecordsAddrMsgs ==
    {AddrMsg(TRUE, {}, RT_SCOPE_UNIVERSE), AddrMsg(TRUE, {IFA_F_DEPRECATED}, RT_SCOPE_UNIVERSE)}

NextRecords ==
    \/ 1 \notin DOMAIN m_links.tbl /\ LinkNew(1, "none")
    \/ \E l \in DOMAIN links : LinkFree(l)
    \/ \E l \in DOMAIN links, m \in RecordsLinkMsgs :
         \E F \in OneFault(l, {"llmnr_ipv4_scope"}) :
            LinkUpdateRtnl(l, m, F[1], F[2])
    \/ \E l \in DOMAIN links, k \in RecordsAddrs :
         /\ link_find_address(World, l, k[1], k[2]) = NULL
         /\ LinkAddressNew(l, k[1], k[2], FALSE)
    \/ \E a \in DOMAIN addrs : LinkAddressFree(a)
    \/ \E a \in DOMAIN addrs, m \in RecordsAddrMsgs :
         \E F \in OneFault(addrs[a].link, {"llmnr_ipv4_scope"}) :
            LinkAddressUpdateRtnl(a, m, F[1], F[2])

SpecRecords == InitLlmnrOn /\ [][NextRecords]_vars

(* ---- the registry: links come and go on every interface index --------- *)
NextRegistry ==
    \/ \E ifindex \in Ifindexes, fail \in LinkNewFails : LinkNew(ifindex, fail)
    \/ \E l \in DOMAIN links : LinkFree(l)
    \/ \E l \in DOMAIN links, m \in RecordsLinkMsgs :
            LinkUpdateRtnl(l, m, {}, NoRRFails(l))
    \/ \E l \in DOMAIN links :
            LinkUpdateMonitor(l, TRUE, <<"203.0.113.1">>, "", 0, {}, NoRRFails(l))

SpecRegistry == Init /\ [][NextRegistry]_vars

(* ---- the zones of a link with two addresses --------------------------- *)
(* LLMNR is on; there is one link at a time: on interface 1 it gets an
   IPv4 and then an IPv6 address, on interface 2 two IPv4 addresses; the
   multicast flag, the DNS-server list, the deprecated flags and the
   routing scopes change; any one scope allocation of a reconciliation may
   fail, or one record allocation or zone insertion. *)
ZonesAddrs(ifindex) ==
    IF ifindex = 1
    THEN <<(<<AF_INET, "192.0.2.7">>), (<<AF_INET6, "2001:db8::7">>)>>
    ELSE <<(<<AF_INET, "192.0.2.7">>), (<<AF_INET, "192.0.2.8">>)>>

ZonesAddrMsgs ==
    {AddrMsg(TRUE, {}, RT_SCOPE_UNIVERSE),
     AddrMsg(TRUE, {IFA_F_DEPRECATED}, RT_SCOPE_UNIVERSE),
     AddrMsg(TRUE, {}, RT_SCOPE_NOWHERE)}

(* One thing goes wrong, or nothing: the allocation of one scope of K, the
   creation of the reverse record of one address, or the insertion of its
   forward record. *)
ZonesFault(l, K) ==
    {<<sf, NoRRFails(l)>> : sf \in OneScopeFault(K)}
    \cup {<<{}, [NoRRFails(l) EXCEPT ![a] = fp]>> :
             a \in Range(links[l].addresses), fp \in {"ptr_rr", "put_address"}}

NextZones ==
    \/ \E ifindex \in {1, 2} : DOMAIN links = {} /\ LinkNew(ifindex, "none")
    \/ \E l \in DOMAIN links : LinkFree(l)
    \/ \E l \in DOMAIN links, m \in RecordsLinkMsgs :
         \E F \in ZonesFault(l, LlmnrKinds) :
            LinkUpdateRtnl(l, m, F[1], F[2])
    \/ \E l \in DOMAIN links, ns \in {<<>>, <<"203.0.113.1">>} :
         \E sf \in OneScopeFault(ScopeKinds) :
            LinkUpdateMonitor(l, TRUE, ns, "", 0, sf, NoRRFails(l))
    \/ \E l \in DOMAIN links :
         LET have == Len(links[l].addresses)
             todo == ZonesAddrs(links[l].ifindex)
         IN /\ have < Len(todo)
            /\ link_find_address(World, l, todo[have + 1][1], todo[have + 1][2]) = NULL
            /\ LinkAddressNew(l, todo[have + 1][1], todo[have + 1][2], FALSE)
    \/ \E a \in DOMAIN addrs, m \in ZonesAddrMsgs :
         \E F \in ZonesFault(addrs[a].link, LlmnrKinds) :
            LinkAddressUpdateRtnl(a, m, F[1], F[2])

SpecZones == InitLlmnrOn /\ [][NextZones]_vars

(* ---- notifications that decode in part --------------------------------- *)
(* One link with one IPv4 address; each field of a notification decodes to
   one of two values or fails to decode (a field that fails carries the
   value the message was built with, which nothing reads). *)
LongName ==
    <<"v", "e", "t", "h", "0", "1", "2", "3", "4", "5", "6", "7", "8", "9", "a", "b", "c">>

DecodeLinkMsgs ==
    {[flags_ok |-> fo, flags |-> f, mtu_ok |-> mo, mtu |-> u,
      name_ok |-> no, name |-> n] :
        fo \in BOOLEAN, f \in {{}, {IFF_MULTICAST}},
        mo \in BOOLEAN, u \in {1500, 9000},
        no \in BOOLEAN, n \in {<<"e", "t", "h", "0">>, LongName}}

DecodeAddrMsgs ==
    {[flags_ok |-> fo, flags |-> f, scope_ok |-> so, scope |-> s] :
        fo \in BOOLEAN, f \in {{}, {IFA_F_DEPRECATED}},
        so \in BOOLEAN, s \in {RT_SCOPE_UNIVERSE, RT_SCOPE_HOST}}

(* A field that failed to decode is left as the message was built:
   the first value. *)
Canonical(m) ==
    /\ ~m.flags_ok => m.flags = {}
    /\ ("mtu_ok" \in DOMAIN m /\ ~m.mtu_ok) => m.mtu = 1500
    /\ ("name_ok" \in DOMAIN m /\ ~m.name_ok) => m.name = <<"e", "t", "h", "0">>
    /\ ("scope_ok" \in DOMAIN m /\ ~m.scope_ok) => m.scope = RT_SCOPE_UNIVERSE

NextDecode ==
    \/ 1 \notin DOMAIN m_links.tbl /\ LinkNew(1, "none")
    \/ \E l \in DOMAIN links, m \in DecodeLinkMsgs :
         Canonical(m) /\ LinkUpdateRtnl(l, m, {}, NoRRFails(l))
    \/ \E l \in DOMAIN links :
         /\ links[l].addresses = <<>>
         /\ LinkAddressNew(l, AF_INET, "192.0.2.7", FALSE)
    \/ \E a \in DOMAIN addrs, m \in DecodeAddrMsgs :
         Canonical(m) /\ LinkAddressUpdateRtnl(a, m, {}, NoRRFails(addrs[a].link))

SpecDecode == InitLlmnrOn /\ [][NextDecode]_vars

(* link_address_new called for any value, whether or not the link already
   has an address of that value; addresses are updated and removed. *)
AnyAddrs == {<<AF_INET, "192.0.2.7">>, <<AF_INET, "192.0.2.8">>,
             <<AF_INET6, "2001:db8::7">>}

NextAnyAddr ==
    \/ 1 \notin DOMAIN m_links.tbl /\ LinkNew(1, "none")
    \/ \E l \in DOMAIN links : LinkFree(l)
    \/ \E l \in DOMAIN links, m \in RecordsLinkMsgs :
         LinkUpdateRtnl(l, m, {}, NoRRFails(l))
    \/ \E l \in DOMAIN links, k \in AnyAddrs, oom \in BOOLEAN :
         LinkAddressNew(l, k[1], k[2], oom)
    \/ \E a \in DOMAIN addrs : LinkAddressFree(a)
    \/ \E a \in DOMAIN addrs, m \in RecordsAddrMsgs :
         LinkAddressUpdateRtnl(a, m, {}, NoRRFails(addrs[a].link))

SpecAnyAddr == InitLlmnrOn /\ [][NextAnyAddr]_vars

(* ---- link_new against a link that is in use --------------------------- *)
(* The link of interface 1 gets an address, a DNS server, its scopes and a
   cursor; links are created and destroyed on every index. *)
InUse(l) == links[l].ifindex = 1

NextLinkNew ==
    \/ \E ifindex \in Ifindexes, fail \in LinkNewFails : LinkNew(ifindex, fail)
    \/ \E l \in DOMAIN links : LinkFree(l)
    \/ \E l \in DOMAIN links :
         /\ InUse(l)
         /\ LinkUpdateRtnl(l, LinkMsg(TRUE, {IFF_MULTICAST}), {}, NoRRFails(l))
    \/ \E l \in DOMAIN links :
         /\ InUse(l)
         /\ LinkUpdateMonitor(l, TRUE, <<"203.0.113.1">>, "", 0, {}, NoRRFails(l))
    \/ \E l \in DOMAIN links : InUse(l) /\ LinkGetDnsServer(l)
    \/ \E l \in DOMAIN links :
         /\ InUse(l) /\ links[l].addresses = <<>>
         /\ LinkAddressNew(l, AF_INET, "192.0.2.7", FALSE)

SpecLinkNew == InitLlmnrOn /\ [][NextLinkNew]_vars

(* =============================== claims =============================== *)
(* C1: no two live Links have the same interface index, and the registry
   maps an index to a live Link of that index. *)
C1_OneLinkPerIfindex ==
    /\ \A l1, l2 \in DOMAIN links :
          links[l1].ifindex = links[l2].ifindex => l1 = l2
    /\ \A i \in DOMAIN m_links.tbl :
          m_links.tbl[i] \in DOMAIN links /\ links[m_links.tbl[i]].ifindex = i

(* link_new on a registered index failed while every index has its link. *)
C1_Witness ==
    /\ ev.op = "link_new" /\ ev.r = EEXIST
    /\ DOMAIN m_links.tbl = Ifindexes
    /\ Cardinality(DOMAIN links) = MaxIfindex

(* The precondition of each scope kind, read off the state. *)
OperStateOk(l) ==
    operstate[links[l].ifindex] \in {"", "unknown", "degraded", "routable"}

AddressUsable(a) ==
    /\ IFA_F_DEPRECATED \notin addrs[a].flags
    /\ addrs[a].scope \notin {RT_SCOPE_HOST, RT_SCOPE_NOWHERE}

ScopeWanted(l, kind) ==
    IF kind = "unicast_scope" THEN links[l].dns_servers # <<>>
    ELSE /\ IFF_LOOPBACK \notin links[l].flags
         /\ OperStateOk(l)
         /\ \E a \in Range(links[l].addresses) :
               /\ addrs[a].family =
                     (IF kind = "llmnr_ipv4_scope" THEN AF_INET ELSE AF_INET6)
               /\ AddressUsable(a)
         /\ IFF_MULTICAST \in links[l].flags
         /\ use_llmnr

C3_ScopeOnlyWhileWanted ==
    \A l \in DOMAIN links : \A kind \in ScopeKinds :
        links[l][kind] # NULL => ScopeWanted(l, kind)

ServerKey(s) == <<servers[s].family, servers[s].address>>

ServerKeys(l) == {ServerKey(s) : s \in Range(links[l].dns_servers)}

IsPass == ev.op = "link_update_monitor"

(* C4: after a link_update_dns_servers pass in which the fetch succeeds,
   every reported address parses and no server allocation fails, the
   link's server list holds exactly the reported (family, address) values,
   one entry for each. *)
C4_ListEqualsReported ==
    (IsPass /\ ev.fetch_ok /\ ~ev.parse_failed /\ ~ev.srv_alloc_failed) =>
        /\ ServerKeys(ev.l) = ev.reported
        /\ Len(links[ev.l].dns_servers) = Cardinality(ev.reported)

(* A pass that kept one entry, dropped one and added one. *)
C4_Witness ==
    /\ IsPass /\ ev.fetch_ok /\ ~ev.parse_failed /\ ~ev.srv_alloc_failed
    /\ Cardinality(ev.reported) = 2
    /\ ev.srv_created = 1 /\ ev.srv_freed = 1

(* Two runs were given the same report: the same fetch result, naming the
   same values, followed or not by an entry that does not parse. *)
SameReport(e1, e2) ==
    /\ e1.fetch_ok = e2.fetch_ok
    /\ e1.reported = e2.reported
    /\ e1.parse_failed = e2.parse_failed

(* In a successful pass every entry whose value is both in the old list and
   in the report keeps its identity and place in the heap, and a cursor on
   such an entry is untouched. *)
IdentityPreserved ==
    (ev'.op = "link_update_monitor" /\ ev'.dns_r = OK) =>
        LET l == ev'.l IN
        /\ \A s \in Range(links[l].dns_servers) :
              ServerKey(s) \in ev'.reported =>
                 /\ s \in Range(links'[l].dns_servers)
                 /\ servers'[s].family = servers[s].family
                 /\ servers'[s].address = servers[s].address
        /\ (/\ links[l].current_dns_server # NULL
            /\ ServerKey(links[l].current_dns_server) \in ev'.reported)
              => links'[l].current_dns_server = links[l].current_dns_server

NoChurn ==
    /\ ev'.srv_created = 0
    /\ ev'.srv_freed = 0
    /\ links'[ev'.l].dns_servers = links[ev'.l].dns_servers

(* C5, as stated: the same report applied twice in succession creates and
   destroys no server entry on the second pass (no allocation failing in
   either pass), and a successful pass preserves the identity of the
   entries it keeps. *)
C5_AsStated ==
    [][/\ IdentityPreserved
       /\ (/\ IsPass /\ ev'.op = "link_update_monitor" /\ ev'.l = ev.l
           /\ ~ev.srv_alloc_failed /\ ~ev'.srv_alloc_failed
           /\ SameReport(ev, ev')) => NoChurn]_vars

(* C5, amended: the same report applied again after a pass that succeeded
   creates and destroys no server entry, and a successful pass preserves
   the identity of the entries it keeps. *)
C5_IdempotentAfterSuccess ==
    [][/\ IdentityPreserved
       /\ (/\ IsPass /\ ev.dns_r = OK
           /\ ev'.op = "link_update_monitor" /\ ev'.l = ev.l
           /\ SameReport(ev, ev')) => NoChurn]_vars

(* A successful pass over a two-entry list that changed nothing, with the
   cursor on the second entry. *)
C5_Witness ==
    /\ IsPass /\ ev.dns_r = OK
    /\ Cardinality(ev.reported) = 2
    /\ ev.srv_created = 0 /\ ev.srv_freed = 0
    /\ Len(links[ev.l].dns_servers) = 2
    /\ links[ev.l].current_dns_server = links[ev.l].dns_servers[2]

(* C6: a link's cursor is NULL or one of the servers of its own list. *)
C6_CursorInList ==
    \A l \in DOMAIN links :
        \/ links[l].current_dns_server = NULL
        \/ /\ links[l].current_dns_server \in Range(links[l].dns_servers)
           /\ links[l].current_dns_server \in DOMAIN servers

(* A successful pass swept the entry the cursor was on and kept another. *)
C6_Witness ==
    /\ IsPass /\ ev.dns_r = OK /\ ev.cursor_reset
    /\ links[ev.l].dns_servers # <<>>
    /\ links[ev.l].current_dns_server = NULL

(* The cursor of link l after k link_next_dns_server calls from here. *)
RECURSIVE NextTimes(_, _, _)
NextTimes(W, l, k) ==
    IF k = 0 THEN W ELSE NextTimes(link_next_dns_server(W, l), l, k - 1)

CursorAfter(l, k) == NextTimes(World, l, k).links[l].current_dns_server

(* C7: from any state of a link with N >= 1 servers, N successive
   link_next_dns_server calls put the cursor on each server exactly once
   and the next call returns to the first selection; a NULL cursor goes to
   the head, the last entry wraps to the head. *)
C7_RoundRobin ==
    \A l \in DOMAIN links :
        LET list == links[l].dns_servers
            N == Len(list)
        IN N >= 1 =>
            /\ {CursorAfter(l, k) : k \in 1..N} = Range(list)
            /\ CursorAfter(l, N + 1) = CursorAfter(l, 1)
            /\ links[l].current_dns_server = NULL => CursorAfter(l, 1) = list[1]
            /\ links[l].current_dns_server = list[N] => CursorAfter(l, 1) = list[1]

(* link_next_dns_server just moved the cursor on to the last of several. *)
C7_Witness ==
    /\ ev.op = "link_next_dns_server"
    /\ Len(links[ev.l].dns_servers) >= 2
    /\ links[ev.l].current_dns_server =
          links[ev.l].dns_servers[Len(links[ev.l].dns_servers)]

(* The records of address a that are published in some zone. *)
AddressRRs(a) == {addrs[a].llmnr_address_rr, addrs[a].llmnr_ptr_rr} \ {NULL}

Published(a) == {rr \in AddressRRs(a) : \E s \in DOMAIN scopes : rr \in scopes[s].zone}

(* C8: across every step, an address that lives on keeps the forward and
   the reverse record it has: the same record, still alive, with the same
   contents. *)
C8_RecordCreateOnce ==
    [][\A a \in DOMAIN addrs \cap DOMAIN addrs' :
         \A f \in {"llmnr_address_rr", "llmnr_ptr_rr"} :
            addrs[a][f] # NULL =>
               /\ addrs'[a][f] = addrs[a][f]
               /\ addrs[a][f] \in DOMAIN rrs /\ addrs[a][f] \in DOMAIN rrs'
               /\ rrs'[addrs[a][f]].type = rrs[addrs[a][f]].type
               /\ rrs'[addrs[a][f]].in_addr = rrs[addrs[a][f]].in_addr]_vars

(* A reconciliation that created no record failed part-way on an address
   that had both its records; they are not both published. *)
C8_Witness ==
    /\ ev.reconciled /\ ev.rr_created = 0 /\ ev.rr_failed # {}
    /\ \A a \in ev.rr_failed :
          /\ a \in DOMAIN addrs
          /\ addrs[a].llmnr_address_rr # NULL /\ addrs[a].llmnr_ptr_rr # NULL
          /\ Published(a) # AddressRRs(a)

(* C9: a step that sets an address's deprecated flag leaves none of its
   records in a zone; a step that clears it, with the family scope's
   precondition holding afterwards and nothing failing, leaves both records
   in the family scope's zone, and they are the records it had. *)
C9_DeprecatedToggle ==
    [][\A a \in DOMAIN addrs \cap DOMAIN addrs' :
         LET was == IFA_F_DEPRECATED \in addrs[a].flags
             is == IFA_F_DEPRECATED \in addrs'[a].flags
             kind == FamilyScope(addrs[a].family)
             s == links'[addrs[a].link][kind]
         IN
         /\ (~was /\ is) => Published(a)' = {}
         /\ (/\ was /\ ~is
             /\ ev'.scope_failed = {} /\ ev'.rr_failed = {}
             /\ AddressUsable(a)' /\ ScopeWanted(addrs[a].link, kind)')
            => /\ s # NULL
               /\ addrs'[a].llmnr_address_rr \in scopes'[s].zone
               /\ addrs'[a].llmnr_ptr_rr \in scopes'[s].zone
               /\ \A f \in {"llmnr_address_rr", "llmnr_ptr_rr"} :
                     addrs[a][f] # NULL => addrs'[a][f] = addrs[a][f]]_vars

(* link_address_update_rtnl cleared the deprecated flag of an address that
   had its records, and both are in the zone again, none created anew. *)
C9_Witness ==
    /\ ev.op = "link_address_update_rtnl" /\ ev.reconciled
    /\ ev.was_deprecated /\ ev.rr_created = 0
    /\ ev.a \in DOMAIN addrs
    /\ IFA_F_DEPRECATED \notin addrs[ev.a].flags
    /\ Cardinality(AddressRRs(ev.a)) = 2
    /\ Published(ev.a) = AddressRRs(ev.a)

(* C10: a pass whose fetch fails, or with an entry that does not parse, or
   with a failed server allocation, returns the failure and leaves the
   link without any server. *)
C10_FailFast ==
    (IsPass /\ (~ev.fetch_ok \/ ev.parse_failed \/ ev.srv_alloc_failed)) =>
        /\ ev.dns_r # OK
        /\ links[ev.l].dns_servers = <<>>
        /\ \A s \in DOMAIN servers : servers[s].link # ev.l

(* A pass created an entry, then met a bad one and destroyed that entry
   and one held before. *)
C10_Witness ==
    /\ IsPass /\ ev.parse_failed
    /\ ev.srv_created >= 1 /\ ev.srv_freed >= 2
    /\ links[ev.l].dns_servers = <<>>

(* Every link but l is what it was. *)
OtherLinksKept(l) ==
    /\ DOMAIN links' = DOMAIN links \cup {l}
    /\ \A k \in DOMAIN links \ {l} : links'[k] = links[k]

(* What link_new does for an index that has no link: a new link with no
   address, no server, no cursor and no scope is inserted and returned, or
   the call fails for want of memory, changing neither registry nor links. *)
CreatesOrRunsOut ==
    LET i == ev'.ifindex
        l == ev'.l
    IN
    \/ /\ ev'.r = OK
       /\ l \notin DOMAIN links /\ OtherLinksKept(l)
       /\ m_links'.tbl = Put(m_links.tbl, i, l)
       /\ links'[l].ifindex = i
       /\ links'[l].addresses = <<>> /\ links'[l].dns_servers = <<>>
       /\ links'[l].current_dns_server = NULL
       /\ \A kind \in ScopeKinds : links'[l][kind] = NULL
    \/ /\ ev'.r = ENOMEM /\ l = NULL
       /\ m_links'.tbl = m_links.tbl /\ links' = links

(* C11, as stated (register is link_new): for a registered index the call
   returns the registered link and changes nothing; otherwise it creates,
   inserts and returns an empty link; it fails only for want of memory. *)
C11_AsStated ==
    [][ev'.op = "link_new" =>
        IF ev'.ifindex \in DOMAIN m_links.tbl
        THEN /\ ev'.r = OK /\ ev'.l = m_links.tbl[ev'.ifindex]
             /\ m_links' = m_links /\ links' = links
        ELSE CreatesOrRunsOut]_vars

(* C11, amended: for a registered index link_new fails with -EEXIST (or
   -ENOMEM when the new link cannot be allocated), returns no link and
   changes neither the registry nor any link; otherwise it creates, inserts
   and returns an empty link, or fails for want of memory. *)
C11_NewOrRefused ==
    [][ev'.op = "link_new" =>
        IF ev'.ifindex \in DOMAIN m_links.tbl
        THEN /\ ev'.r \in {EEXIST, ENOMEM} /\ ev'.l = NULL
             /\ m_links'.tbl = m_links.tbl /\ links' = links
        ELSE CreatesOrRunsOut]_vars

(* link_new made a second link while the first has an address, a server
   and a cursor. *)
C11_Witness ==
    /\ ev.op = "link_new" /\ ev.r = OK /\ ev.ifindex # 1
    /\ links[ev.l].addresses = <<>>
    /\ \E k \in DOMAIN links :
          /\ links[k].addresses # <<>> /\ links[k].dns_servers # <<>>
          /\ links[k].current_dns_server # NULL

(* C12: every record in a zone is a live record of a live address of the
   zone's link, every live record belongs to a live address, and a record
   is referenced once by its address and once by each zone holding it: the
   records of a destroyed address are in no zone and are gone. *)
C12_NoRecordOfDeadAddress ==
    /\ \A s \in DOMAIN scopes : \A rr \in scopes[s].zone :
          /\ rr \in DOMAIN rrs
          /\ \E a \in Range(links[scopes[s].link].addresses) :
                a \in DOMAIN addrs /\ rr \in AddressRRs(a)
    /\ \A rr \in DOMAIN rrs :
          /\ \E a \in DOMAIN addrs : rr \in AddressRRs(a)
          /\ rrs[rr].n_ref =
                1 + Cardinality({s \in DOMAIN scopes : rr \in scopes[s].zone})

(* link_address_free took both records of its address out of the zone,
   which still holds the two records of the link's other address. *)
C12_Witness ==
    /\ ev.op = "link_address_free" /\ ev.unpublished = 2
    /\ ev.a \notin DOMAIN addrs
    /\ links[ev.l].llmnr_ipv4_scope # NULL
    /\ Cardinality(scopes[links[ev.l].llmnr_ipv4_scope].zone) = 2

(* The order of a sequence of frees under a ranking of what is freed. *)
InOrder(log, rank) ==
    \A i, j \in 1..Len(log) : i < j => rank[log[i]] <= rank[log[j]]

CountOf(log, tag) == Cardinality({i \in 1..Len(log) : log[i] = tag})

(* link_free let go of everything link l owned, and nothing of it is left. *)
FreedAll(l) ==
    /\ CountOf(ev'.free_order, "address") = Len(links[l].addresses)
    /\ CountOf(ev'.free_order, "dns_server") = Len(links[l].dns_servers)
    /\ \A kind \in ScopeKinds :
          CountOf(ev'.free_order, kind) = (IF links[l][kind] # NULL THEN 1 ELSE 0)
    /\ l \notin DOMAIN links'
    /\ links[l].ifindex \notin DOMAIN m_links'.tbl
    /\ \A a \in DOMAIN addrs' : addrs'[a].link # l
    /\ \A s \in DOMAIN servers' : servers'[s].link # l
    /\ \A s \in DOMAIN scopes' : scopes'[s].link # l

StatedOrder ==
    [address |-> 1, dns_server |-> 2, unicast_scope |-> 3,
     llmnr_ipv4_scope |-> 4, llmnr_ipv6_scope |-> 5]

CodeOrder ==
    [address |-> 1, unicast_scope |-> 2, llmnr_ipv4_scope |-> 3,
     llmnr_ipv6_scope |-> 4, dns_server |-> 5]

(* C13, as stated: link_free releases the addresses, then the DNS servers,
   then the unicast, IPv4 and IPv6 scopes, and leaves nothing of the link. *)
C13_AsStated ==
    [][ev'.op = "link_free" =>
          InOrder(ev'.free_order, StatedOrder) /\ FreedAll(ev'.l)]_vars

(* C13, amended: link_free releases the addresses, then the unicast, IPv4
   and IPv6 scopes, then the DNS servers, and leaves nothing of the link. *)
C13_AddressesScopesServers ==
    [][ev'.op = "link_free" =>
          InOrder(ev'.free_order, CodeOrder) /\ FreedAll(ev'.l)]_vars

(* link_free released two addresses, three scopes and a server. *)
C13_Witness ==
    /\ ev.op = "link_free"
    /\ CountOf(ev.free_order, "address") = 2
    /\ CountOf(ev.free_order, "dns_server") = 1
    /\ \A kind \in ScopeKinds : CountOf(ev.free_order, kind) = 1

(* The records that belong in the zone of link l's LLMNR scope of family
   F: both records of each relevant address of that family. *)
RelevantAddrs(l, F) ==
    {a \in Range(links[l].addresses) : addrs[a].family = F /\ AddressUsable(a)}

ZoneAsWanted(l) ==
    \A F \in Families :
        LET s == links[l][FamilyScope(F)] IN
        s # NULL =>
           /\ \A a \in RelevantAddrs(l, F) : Cardinality(AddressRRs(a)) = 2
           /\ scopes[s].zone = UNION {AddressRRs(a) : a \in RelevantAddrs(l, F)}

(* C17: after a completed reconciliation in which nothing failed, the zone
   of each LLMNR scope of the link holds exactly the forward and reverse
   records of the link's relevant addresses of the scope's family. *)
C17_ZoneIsRelevantRecords ==
    (ev.reconciled /\ ev.scope_failed = {} /\ ev.rr_failed = {}) =>
        ZoneAsWanted(ev.l)

(* A reconciliation left the IPv4 zone with the two records of one address
   while the link's other IPv4 address has its records out of the zone. *)
C17_Witness ==
    /\ ev.reconciled /\ ev.scope_failed = {} /\ ev.rr_failed = {}
    /\ links[ev.l].llmnr_ipv4_scope # NULL
    /\ Cardinality(scopes[links[ev.l].llmnr_ipv4_scope].zone) = 2
    /\ \E a \in Range(links[ev.l].addresses) :
          /\ addrs[a].family = AF_INET /\ ~AddressUsable(a)
          /\ Cardinality(AddressRRs(a)) = 2 /\ Published(a) = {}

(* Across a step the conditions a reconciliation of link l reads are
   unchanged. *)
ConditionsUnchanged(l) ==
    /\ l \in DOMAIN links /\ l \in DOMAIN links'
    /\ links'[l].flags = links[l].flags
    /\ links'[l].addresses = links[l].addresses
    /\ links'[l].dns_servers = links[l].dns_servers
    /\ \A a \in Range(links[l].addresses) :
          addrs'[a].flags = addrs[a].flags /\ addrs'[a].scope = addrs[a].scope
    /\ operstate' = operstate

(* The step allocated and freed no scope and left scopes, zones and
   records as they were. *)
NothingDone(l) ==
    /\ \A kind \in ScopeKinds : links'[l][kind] = links[l][kind]
    /\ ev'.scope_realloc = {}
    /\ scopes' = scopes /\ rrs' = rrs /\ addrs' = addrs

(* C18, as stated: a reconciliation that follows a reconciliation of the
   same link with unchanged conditions does nothing. *)
C18_AsStated ==
    [][(/\ ev.reconciled /\ ev'.reconciled /\ ev'.l = ev.l
        /\ ConditionsUnchanged(ev.l)) => NothingDone(ev.l)]_vars

(* C18, amended: a reconciliation that follows a reconciliation of the
   same link in which nothing failed, with unchanged conditions, does
   nothing. *)
C18_IdempotentAfterSuccess ==
    [][(/\ ev.reconciled /\ ev.scope_failed = {} /\ ev.rr_failed = {}
        /\ ev'.reconciled /\ ev'.l = ev.l
        /\ ConditionsUnchanged(ev.l)) => NothingDone(ev.l)]_vars

(* A reconciliation of a link with a server, both LLMNR scopes and four
   published records created no record and lost no server. *)
C18_Witness ==
    /\ ev.reconciled /\ ev.scope_failed = {} /\ ev.rr_failed = {}
    /\ ev.rr_created = 0 /\ ev.srv_created = 0 /\ ev.srv_freed = 0
    /\ \A kind \in ScopeKinds : links[ev.l][kind] # NULL
    /\ \A a \in Range(links[ev.l].addresses) : Cardinality(Published(a)) = 2
    /\ Len(links[ev.l].addresses) = 2

(* What a reconciliation leaves when some of it failed: the handler
   returns 0; a scope whose allocation failed is absent though wanted,
   every other scope exists iff wanted; every address whose records did
   not fail has them in its family's zone iff it is relevant. *)
FailureContained ==
    ev.reconciled =>
        /\ ev.r = OK
        /\ \A kind \in ScopeKinds :
              IF kind \in ev.scope_failed
              THEN links[ev.l][kind] = NULL /\ ScopeWanted(ev.l, kind)
              ELSE links[ev.l][kind] # NULL <=> ScopeWanted(ev.l, kind)
        /\ \A a \in Range(links[ev.l].addresses) \ ev.rr_failed :
              LET s == links[ev.l][FamilyScope(addrs[a].family)] IN
              s # NULL =>
                 IF AddressUsable(a)
                 THEN Cardinality(AddressRRs(a)) = 2 /\ AddressRRs(a) \subseteq scopes[s].zone
                 ELSE Published(a) = {}

(* The next reconciliation of the link, conditions unchanged and nothing
   failing, allocates the scopes that failed and publishes the records that
   failed. *)
RetrySucceeds ==
    (/\ ev.reconciled /\ (ev.scope_failed # {} \/ ev.rr_failed # {})
     /\ ev'.reconciled /\ ev'.l = ev.l
     /\ ev'.scope_failed = {} /\ ev'.rr_failed = {}
     /\ ConditionsUnchanged(ev.l))
    => /\ \A kind \in ev.scope_failed : links'[ev.l][kind] # NULL
       /\ \A a \in ev.rr_failed :
             LET s == links'[ev.l][FamilyScope(addrs[a].family)] IN
             (s # NULL /\ AddressUsable(a)) =>
                /\ addrs'[a].llmnr_address_rr \in scopes'[s].zone
                /\ addrs'[a].llmnr_ptr_rr \in scopes'[s].zone

(* C19: a failed scope allocation or a failed record of one address is
   contained, and the next reconciliation that does not fail makes up for
   it. *)
C19_ContainedAndRetried == []FailureContained /\ [][RetrySucceeds]_vars

(* The IPv4 scope's allocation failed; the link has its unicast and IPv6
   scopes and the IPv6 address is published. *)
C19_Witness ==
    /\ ev.reconciled /\ ev.scope_failed = {"llmnr_ipv4_scope"}
    /\ links[ev.l].unicast_scope # NULL
    /\ links[ev.l].llmnr_ipv6_scope # NULL
    /\ Cardinality(scopes[links[ev.l].llmnr_ipv6_scope].zone) = 2

(* What a notification's fields do to the object: a field that decodes is
   stored (the name cut to the size of l->name), one that does not is left
   as it was. *)
LinkFieldsApplied(l, m) ==
    /\ links'[l].flags = (IF m.flags_ok THEN m.flags ELSE links[l].flags)
    /\ links'[l].mtu = (IF m.mtu_ok THEN m.mtu ELSE links[l].mtu)
    /\ links'[l].name =
          (IF m.name_ok THEN Take(m.name, IF_NAMESIZE - 1) ELSE links[l].name)

AddrFieldsApplied(a, m) ==
    /\ addrs'[a].flags = (IF m.flags_ok THEN m.flags ELSE addrs[a].flags)
    /\ addrs'[a].scope = (IF m.scope_ok THEN m.scope ELSE addrs[a].scope)

(* The reconciliation ran: afterwards each scope exists iff wanted and the
   zones hold the records of the relevant addresses. *)
Reconciled(l) ==
    /\ ev'.reconciled /\ ev'.r = OK
    /\ \A kind \in ScopeKinds : (links'[l][kind] # NULL) <=> ScopeWanted(l, kind)'
    /\ ZoneAsWanted(l)'

(* C14, as stated: whichever field of a notification fails to decode, only
   that field is left as it was, the other fields are stored and the
   reconciliation runs. *)
C14_AsStated ==
    [][\A l \in DOMAIN links :
        /\ (ev'.op = "link_update_rtnl" /\ ev'.l = l) =>
              LinkFieldsApplied(l, ev'.msg) /\ Reconciled(l)
        /\ \A a \in Range(links[l].addresses) :
              (ev'.op = "link_address_update_rtnl" /\ ev'.a = a) =>
                 AddrFieldsApplied(a, ev'.msg) /\ Reconciled(l)]_vars

(* The handler returned an error and touched nothing. *)
Refused ==
    /\ ev'.r # OK /\ ~ev'.reconciled
    /\ links' = links /\ addrs' = addrs /\ scopes' = scopes /\ rrs' = rrs

(* C14, amended: when the flags decode, an MTU, name or routing scope that
   does not is left as it was, the other fields are stored and the
   reconciliation runs; when the flags do not decode the handler returns
   the error, stores no field and does not reconcile. *)
C14_FlagsOrNothing ==
    [][\A l \in DOMAIN links :
        /\ (ev'.op = "link_update_rtnl" /\ ev'.l = l) =>
              IF ev'.msg.flags_ok
              THEN LinkFieldsApplied(l, ev'.msg) /\ Reconciled(l)
              ELSE Refused
        /\ \A a \in Range(links[l].addresses) :
              (ev'.op = "link_address_update_rtnl" /\ ev'.a = a) =>
                 IF ev'.msg.flags_ok
                 THEN AddrFieldsApplied(a, ev'.msg) /\ Reconciled(l)
                 ELSE Refused]_vars

(* A link notification whose MTU did not decode set the multicast flag and
   a long name, cut to fit, kept the MTU of before and got the link its
   IPv4 scope. *)
C14_Witness ==
    /\ ev.op = "link_update_rtnl" /\ ev.r = OK
    /\ ev.msg.flags_ok /\ ~ev.msg.mtu_ok /\ ev.msg.name_ok
    /\ links[ev.l].flags = {IFF_MULTICAST}
    /\ links[ev.l].mtu = 9000
    /\ Len(ev.msg.name) > Len(links[ev.l].name)
    /\ links[ev.l].llmnr_ipv4_scope # NULL

(* Across a pass over link l: a server whose value is reported again is
   the same server, one whose value is not is gone, and each value reported
   anew has a server that did not exist before. *)
KeptDroppedAdded(l) ==
    /\ \A s \in Range(links[l].dns_servers) :
          IF ServerKey(s) \in ev'.reported
          THEN /\ s \in Range(links'[l].dns_servers)
               /\ servers'[s].family = servers[s].family
               /\ servers'[s].address = servers[s].address
          ELSE s \notin DOMAIN servers'
    /\ \A k \in ev'.reported \ ServerKeys(l) :
          \E s \in Range(links'[l].dns_servers) \ DOMAIN servers :
             servers'[s].family = k[1] /\ servers'[s].address = k[2]
    /\ ev'.srv_created = Cardinality(ev'.reported \ ServerKeys(l))
    /\ ev'.srv_freed = Cardinality(ServerKeys(l) \ ev'.reported)

(* C15: a successful refresh with a non-empty report that follows a
   successful refresh of the same link with a non-empty report (whose
   unicast scope was allocated) keeps the link's unicast scope: the same
   scope, never freed nor allocated anew; servers no longer reported are
   destroyed, those reported again keep their identity, new ones are
   created. *)
C15_UnicastScopeStays ==
    [][\A l \in DOMAIN links :
        (/\ IsPass /\ ev.l = l /\ ev.dns_r = OK /\ ev.reported # {}
         /\ ev.scope_failed = {}
         /\ ev'.op = "link_update_monitor" /\ ev'.l = l
         /\ ev'.dns_r = OK /\ ev'.reported # {})
        => /\ links[l].unicast_scope # NULL
           /\ links'[l].unicast_scope = links[l].unicast_scope
           /\ links[l].unicast_scope \in DOMAIN scopes'
           /\ "unicast_scope" \notin ev'.scope_realloc
           /\ KeptDroppedAdded(l)]_vars

(* A refresh kept one server, destroyed one and created one; the cursor
   is on the kept server and the link has its unicast scope. *)
C15_Witness ==
    /\ IsPass /\ ev.dns_r = OK
    /\ Cardinality(ev.reported) = 2
    /\ ev.srv_created = 1 /\ ev.srv_freed = 1 /\ ~ev.cursor_reset
    /\ links[ev.l].current_dns_server = links[ev.l].dns_servers[1]
    /\ links[ev.l].unicast_scope # NULL

(* No two entries of the link's address list have the same family and
   value. *)
AddressesDistinct(l) ==
    \A i, j \in 1..Len(links[l].addresses) :
       (/\ addrs[links[l].addresses[i]].family = addrs[links[l].addresses[j]].family
        /\ addrs[links[l].addresses[i]].in_addr = addrs[links[l].addresses[j]].in_addr)
       => i = j

(* The step is not a link_address_new of a value that link_find_address
   finds on the link before the call. *)
CreatedOnlyIfNotFound(l) ==
    (ev'.op = "link_address_new" /\ ev'.r = OK /\ ev'.l = l)
    => link_find_address(World, l, addrs'[ev'.a].family, addrs'[ev'.a].in_addr) = NULL

(* C16 as stated: whatever the sequence of link_address_new, update and
   removal calls, no address list has two entries of one family and
   value. *)
C16_AsStated == \A l \in DOMAIN links : AddressesDistinct(l)

(* C16: the address list of a link stays free of entries with the same
   family and value across address creation, update and removal, provided
   link_address_new is called only for a family and value that
   link_find_address does not find on the link. *)
C16_DistinctIfLookedUp ==
    [][\A l \in DOMAIN links :
        (AddressesDistinct(l) /\ CreatedOnlyIfNotFound(l) /\ l \in DOMAIN links')
        => AddressesDistinct(l)']_vars

(* A second address was created next to one of the same family and another
   value: the lookup had to tell them apart. *)
C16_Witness ==
    /\ ev.op = "link_address_new" /\ ev.r = OK
    /\ ev.l \in DOMAIN links
    /\ Len(links[ev.l].addresses) = 2
    /\ AddressesDistinct(ev.l)
    /\ addrs[links[ev.l].addresses[1]].family = addrs[links[ev.l].addresses[2]].family

(* C20: a link_new that fails changes no registry entry, no link, address,
   server, scope or record, and returns no link; link_new on a registered
   index fails. *)
C20_FailedNewChangesNothing ==
    [][ev'.op = "link_new" =>
        /\ ev'.ifindex \in DOMAIN m_links.tbl => ev'.r \in {EEXIST, ENOMEM}
        /\ ev'.r # OK =>
              /\ ev'.l = NULL
              /\ m_links'.tbl = m_links.tbl
              /\ links' = links /\ addrs' = addrs /\ servers' = servers
              /\ scopes' = scopes /\ rrs' = rrs]_vars

(* link_new was refused for the index of a link that has a published
   address, a server under the cursor and two scopes. *)
C20_Witness ==
    /\ ev.op = "link_new" /\ ev.r = EEXIST
    /\ LET l == m_links.tbl[ev.ifindex] IN
       /\ links[l].current_dns_server # NULL
       /\ links[l].unicast_scope # NULL
       /\ links[l].llmnr_ipv4_scope # NULL
       /\ \E a \in Range(links[l].addresses) : Published(a) # {}

====
